---- MODULE Spec2Model ----
(***************************************************************************)
(* e2bridge: the bridge core of EngineLabsProvider.                        *)
(*                                                                         *)
(* One asyncio task per inbound request.  A task is suspended only at an   *)
(* await (the credential mint, the trigger call, the channel open, each    *)
(* receive) or at a yield of its stream generator; the code between two    *)
(* such points runs without interleaving, so each action below is one      *)
(* such run.  The conversation cache is the only state the tasks share.    *)
(***************************************************************************)
EXTENDS Integers, Sequences, FiniteSets, TLC

(***************************************************************************)
(* Python values.  A value is a tagged tuple; a dict keeps its items in    *)
(* insertion order, as Python does.  A str that holds a JSON document is   *)
(* tagged "jstr" and carries the document; a str that is not valid JSON    *)
(* is tagged "str".                                                        *)
(***************************************************************************)
None == <<"none">>

Bool(b) == <<"bool", b>>

Str(s) == <<"str", s>>

List(items) == <<"list", items>>

Dict(items) == <<"dict", items>>

JsonText(v) == <<"jstr", v>>

Tag(v) == v[1]

IsDict(v) == Tag(v) = "dict"

\* key in d
Has(d, k) == \E i \in 1..Len(d[2]) : d[2][i][1] = k

\* d.get(k, default) on a dict d
Get(d, k, default) ==
    IF Has(d, k)
    THEN d[2][CHOOSE i \in 1..Len(d[2]) : d[2][i][1] = k][2]
    ELSE default

\* Python truth value of v
Truthy(v) ==
    CASE Tag(v) = "none" -> FALSE
      [] Tag(v) = "bool" -> v[2]
      [] Tag(v) = "str"  -> v[2] /= ""
      [] Tag(v) = "jstr" -> TRUE
      [] Tag(v) = "list" -> Len(v[2]) > 0
      [] Tag(v) = "dict" -> Len(v[2]) > 0

\* v == the str s
IsStr(v, s) == Tag(v) = "str" /\ v[2] = s

(***************************************************************************)
(* json.loads: the decoded document, or the exception it raises.           *)
(***************************************************************************)
Ok(v) == [exc |-> "", val |-> v]

Raise(e) == [exc |-> e, val |-> None]

JsonLoads(x) ==
    CASE Tag(x) = "jstr" -> Ok(x[2])
      [] Tag(x) = "str"  -> Raise("JSONDecodeError")
      [] OTHER           -> Raise("TypeError")

(***************************************************************************)
(* json.dumps(messages, sort_keys=True) and the md5 digest of its text.    *)
(* The keys a message may carry, in the order sort_keys puts them.         *)
(***************************************************************************)
KeyOrder == <<"content", "name", "role">>

RECURSIVE ItemsInOrder(_, _)
ItemsInOrder(d, i) ==
    IF i > Len(KeyOrder) THEN <<>>
    ELSE (IF Has(d, KeyOrder[i])
          THEN << <<KeyOrder[i], Get(d, KeyOrder[i], None)>> >>
          ELSE <<>>) \o ItemsInOrder(d, i + 1)

\* a dict as json.dumps writes it: items by sorted key, or as inserted
DumpDict(d, sort_keys) == IF sort_keys THEN Dict(ItemsInOrder(d, 1)) ELSE d

JsonDumps(msgs, sort_keys) ==
    JsonText(List([i \in 1..Len(msgs) |-> DumpDict(msgs[i], sort_keys)]))

\* hashlib.md5(text).hexdigest(): one digest per text
Md5Hex(text) == <<"md5", text>>

Sentinel == <<"empty", JsonText(List(<<>>))>>

(***************************************************************************)
(* _get_conversation_fingerprint and the cache's get-or-create.            *)
(***************************************************************************)
\* messages[:-1]
AllButLast(msgs) ==
    IF Len(msgs) = 0 THEN <<>> ELSE SubSeq(msgs, 1, Len(msgs) - 1)

\* the fingerprint of a history (a plausible slip: the empty history hashed)
FingerprintNoSentinel(history) == Md5Hex(JsonDumps(history, TRUE))

\* the fingerprint of a history (a plausible slip: keys left as inserted)
FingerprintUnsorted(history) ==
    IF Len(history) = 0 THEN Sentinel ELSE Md5Hex(JsonDumps(history, FALSE))

Fingerprint(history) ==
    IF Len(history) = 0 THEN Sentinel ELSE Md5Hex(JsonDumps(history, TRUE))

\* the cache after a resolve (a plausible slip: the entry always written)
CacheAlwaysWritten(c, f, h) ==
    [g \in DOMAIN c \cup {f} |-> IF g = f THEN h ELSE c[g]]

\* a resolve that never writes the cache
CacheNeverWritten(c, f, h) == c

\* the cache after a resolve of fingerprint f, h being the uuid a miss draws
CacheAfterResolve(c, f, h) ==
    IF f \in DOMAIN c
    THEN c
    ELSE [g \in DOMAIN c \cup {f} |-> IF g = f THEN h ELSE c[g]]

\* a resolve that takes a new handle whether the fingerprint is bound or not
HandleAlwaysNew(c, f, h) == h

\* the handle a resolve of fingerprint f returns
HandleOfResolve(c, f, h) == IF f \in DOMAIN c THEN c[f] ELSE h

(***************************************************************************)
(* Outbound chunks.                                                        *)
(***************************************************************************)
\* create_chat_completion_chunk(request_id, model, content, finish_reason)
Chunk(content, finish_reason) ==
    [content |-> content, finish_reason |-> finish_reason]

\* f"Internal error: {str(e)}"
ErrorMessage(e) ==
    CASE e = "IndexError"       -> "Internal error: list index out of range"
      [] e = "KeyError"         -> "Internal error: 'content'"
      [] e = "HTTPStatusError"  -> "Internal error: trigger call failed"
      [] e = "ConnectError"     -> "Internal error: channel open failed"
      [] e = "ConnectionClosed" -> "Internal error: channel closed"
      [] e = "JSONDecodeError"  -> "Internal error: Expecting value"
      [] e = "TypeError"        -> "Internal error: the JSON object must be str"
      [] e = "AttributeError"   -> "Internal error: object has no attribute 'get'"

InitialChunk == Chunk("", "none")

ContentChunk(content) == Chunk(content, "none")

\* the error chunk (a plausible slip: the message left out)
ErrorChunkBlank(e) == Chunk("", "stop")

\* the error chunk (a plausible slip: no finish reason)
ErrorChunkOpen(e) == Chunk(ErrorMessage(e), "none")

ErrorChunk(e) == Chunk(ErrorMessage(e), "stop")

FinalChunk == Chunk("", "stop")

(***************************************************************************)
(* One pass of the receive loop over a message the channel delivered:      *)
(* what the loop body does with it.                                        *)
(*   [do |-> "break"]            the loop ends                             *)
(*   [do |-> "continue"]         nothing is emitted, the loop goes on      *)
(*   [do |-> "yield", content]   one content chunk is emitted              *)
(*   [do |-> "raise", exc]       the exception leaves the loop             *)
(***************************************************************************)
Break == [do |-> "break", content |-> "", exc |-> ""]

Continue == [do |-> "continue", content |-> "", exc |-> ""]

Yield(c) == [do |-> "yield", content |-> c, exc |-> ""]

Throw(e) == [do |-> "raise", content |-> "", exc |-> e]

\* the inner try without the "if content:" test
OnBufferAnyContent(buffer_str) ==
    LET r == JsonLoads(buffer_str) IN
    IF r.exc = "JSONDecodeError" THEN Continue
    ELSE IF r.exc /= "" THEN Throw(r.exc)
    ELSE IF ~IsDict(r.val) THEN Throw("AttributeError")
    ELSE IF ~IsStr(Get(r.val, "type", None), "chat") THEN Continue
    ELSE LET chat == Get(r.val, "chat", Dict(<<>>)) IN
         IF ~IsDict(chat) THEN Throw("AttributeError")
         ELSE LET content == Get(chat, "content", None) IN
              IF Tag(content) = "str" THEN Yield(content[2]) ELSE Continue

\* the inner try: the nested payload of an update
OnBuffer(buffer_str) ==
    LET r == JsonLoads(buffer_str) IN
    IF r.exc = "JSONDecodeError" THEN Continue
    ELSE IF r.exc /= "" THEN Throw(r.exc)
    ELSE IF ~IsDict(r.val) THEN Throw("AttributeError")
    ELSE IF ~IsStr(Get(r.val, "type", None), "chat") THEN Continue
    ELSE LET chat == Get(r.val, "chat", Dict(<<>>)) IN
         IF ~IsDict(chat) THEN Throw("AttributeError")
         ELSE LET content == Get(chat, "content", None) IN
              IF Truthy(content) THEN Yield(content[2]) ELSE Continue

\* the test that ends the loop (a plausible slip: the "not" left out)
EndsLoopWhileInProgress(data) ==
    IF ~IsStr(Get(data, "type", None), "state") THEN [exc |-> "", val |-> FALSE]
    ELSE LET state == Get(data, "state", Dict(<<>>)) IN
         IF ~IsDict(state) THEN [exc |-> "AttributeError", val |-> FALSE]
         ELSE [exc |-> "", val |-> Truthy(Get(state, "inProgress", None))]

\* data.get("type") == "state" and not data.get("state", {}).get("inProgress")
EndsLoop(data) ==
    IF ~IsStr(Get(data, "type", None), "state") THEN [exc |-> "", val |-> FALSE]
    ELSE LET state == Get(data, "state", Dict(<<>>)) IN
         IF ~IsDict(state) THEN [exc |-> "AttributeError", val |-> FALSE]
         ELSE [exc |-> "", val |-> ~Truthy(Get(state, "inProgress", None))]

\* the loop body after websocket.recv() returned message
OnMessage(message) ==
    LET r == JsonLoads(message) IN
    IF r.exc /= "" THEN Throw(r.exc)
    ELSE IF ~IsDict(r.val) THEN Throw("AttributeError")
    ELSE LET data == r.val
             e == EndsLoop(data) IN
         IF e.exc /= "" THEN Throw(e.exc)
         ELSE IF e.val THEN Break
         ELSE IF IsStr(Get(data, "type", None), "update")
              THEN OnBuffer(Get(data, "buffer", JsonText(Dict(<<>>))))
              ELSE Continue

\* an except clause that emits nothing
ExceptSilent(cs, e) == cs

\* the except clause: the error chunk is yielded
Except(cs, e) == Append(cs, ErrorChunk(e))

\* the finally clause (a plausible slip: no final chunk)
FinallySilent(cs) == cs

\* the finally clause: the final chunk is yielded
Finally(cs) == Append(cs, FinalChunk)

(***************************************************************************)
(* Inputs: the messages a client may send, the frames the upstream may     *)
(* push, and the bounds of the model.                                      *)
(***************************************************************************)
UserHi == Dict(<< <<"role", Str("user")>>, <<"content", Str("hi")>> >>)

\* UserHi as another producer serializes it
UserHiSwapped == Dict(<< <<"content", Str("hi")>>, <<"role", Str("user")>> >>)

UserMore == Dict(<< <<"role", Str("user")>>, <<"content", Str("more")>> >>)

Reply == Dict(<< <<"role", Str("assistant")>>, <<"content", Str("hello")>> >>)

NoContent == Dict(<< <<"role", Str("user")>> >>)

\* the messages lists of the requests of the relay specification
RelayLists ==
    { <<>>, <<NoContent>>, <<UserHi>>, <<UserHi, Reply, UserMore>> }

\* the messages lists of the requests of the cache specification
CacheLists ==
    { <<UserHi>>, <<UserMore>>,
      <<UserHi, Reply, UserMore>>, <<UserHiSwapped, Reply, UserMore>>,
      <<UserMore, Reply, UserHi>> }

Event(items) == JsonText(Dict(items))

StateFrame(in_progress) ==
    Event(<< <<"type", Str("state")>>,
             <<"state", Dict(<< <<"inProgress", Bool(in_progress)>> >>)>> >>)

UpdateFrame(buffer) == Event(<< <<"type", Str("update")>>, <<"buffer", buffer>> >>)

ChatPayload(content) ==
    Dict(<< <<"type", Str("chat")>>,
            <<"chat", Dict(<< <<"content", Str(content)>> >>)>> >>)

ChatFrame(content) == UpdateFrame(JsonText(ChatPayload(content)))

\* frames that are no JSON, or no JSON object
BrokenFrames == { Str("oops"), JsonText(List(<<>>)) }

StateFrames ==
    { StateFrame(FALSE), StateFrame(TRUE),
      Event(<< <<"type", Str("state")>> >>),
      Event(<< <<"type", Str("state")>>, <<"state", None>> >>) }

OtherFrames == { Event(<< <<"type", Str("ping")>> >>) }

UpdateFrames ==
    { Event(<< <<"type", Str("update")>> >>),
      UpdateFrame(Str("{oops")),
      UpdateFrame(ChatPayload("x")),
      UpdateFrame(JsonText(List(<<>>))),
      UpdateFrame(JsonText(Dict(<< <<"type", Str("tool")>> >>))),
      UpdateFrame(JsonText(Dict(<< <<"type", Str("chat")>> >>))),
      UpdateFrame(JsonText(Dict(<< <<"type", Str("chat")>>, <<"chat", None>> >>))),
      ChatFrame(""), ChatFrame("x"), ChatFrame("y") }

\* the frames the upstream pushes in the relay specification
RelayFrames == BrokenFrames \cup StateFrames \cup OtherFrames \cup UpdateFrames

\* the frames the upstream pushes in the cache specification
CacheFrames == { StateFrame(FALSE) }

\* the messages lists of the failure specification: an empty list, and
\* lists that are sent again after their stream failed
FailureLists == { <<>>, <<UserHi>>, <<UserHi, Reply, UserMore>> }

\* frames one stream receives at most
MaxReceives == 3

\* requests of the cache specification
NumRequests == 2

Requests == 1..NumRequests

Unset == <<"unset", JsonText(List(<<>>))>>

(***************************************************************************)
(* State.                                                                  *)
(***************************************************************************)
VARIABLES
    conversation_cache, \* self.conversation_cache: fingerprint -> handle
    uuids,              \* handles uuid4 has drawn so far
    pc,                 \* where each request's task is suspended
    messages,           \* request_data["messages"]
    fingerprint,        \* the fingerprint of the request's prior history
    chat_history_id,    \* the handle the request resolved to
    created,            \* whether the resolve took the miss branch
    response,           \* what chat_completions returned: a stream, or a 500
    exc,                \* the exception the generator's except clause caught
    websocket,          \* the upstream channel: "none", "open", "closed"
    recvd,              \* the frames websocket.recv() returned, in order
    chunks,             \* the chunks the generator yielded, in order
    calls,              \* mint, trigger and connect calls issued
    gone                \* whether the stream's consumer has gone away

vars ==
    <<conversation_cache, uuids, pc, messages, fingerprint, chat_history_id,
      created, response, exc, websocket, recvd, chunks, calls, gone>>

Init ==
    /\ conversation_cache = <<>>
    /\ uuids = 0
    /\ pc = [r \in Requests |-> "idle"]
    /\ messages = [r \in Requests |-> <<>>]
    /\ fingerprint = [r \in Requests |-> Unset]
    /\ chat_history_id = [r \in Requests |-> 0]
    /\ created = [r \in Requests |-> FALSE]
    /\ response = [r \in Requests |-> "none"]
    /\ exc = [r \in Requests |-> ""]
    /\ websocket = [r \in Requests |-> "none"]
    /\ recvd = [r \in Requests |-> <<>>]
    /\ chunks = [r \in Requests |-> <<>>]
    /\ calls = [r \in Requests |-> [mint |-> 0, trigger |-> 0, connect |-> 0]]
    /\ gone = [r \in Requests |-> FALSE]

(***************************************************************************)
(* Actions.  pc names the await or yield a task is suspended at:           *)
(*   idle       the request has not arrived                                *)
(*   mint       await self.client.post(token_url)            line 54       *)
(*   start      the StreamingResponse is returned, the generator not run   *)
(*   trigger    await self.client.post(chat_url)             line 126      *)
(*   connect    async with websockets.connect(...)           line 137      *)
(*   y_open     yield of the initial chunk                   line 141      *)
(*   recv       await websocket.recv()                       line 144      *)
(*   y_content  yield of a content chunk                     line 162      *)
(*   y_error    yield of the error chunk                     line 171      *)
(*   y_final    yield of the final chunk                     line 174      *)
(*   done       the generator returned, or the request got its 500         *)
(***************************************************************************)
Called(r, what) == [calls EXCEPT ![r][what] = @ + 1]

\* an exception reaches the except clause of a generator that opened its
\* channel without the async with: nothing closes the channel
CaughtChannelKept(r, e) ==
    /\ exc' = [exc EXCEPT ![r] = e]
    /\ websocket' = websocket
    /\ chunks' = [chunks EXCEPT ![r] = Except(@, e)]
    /\ pc' = [pc EXCEPT ![r] = "y_error"]

\* an exception reaches the except clause: the channel, if entered, is left
Caught(r, e) ==
    /\ exc' = [exc EXCEPT ![r] = e]
    /\ websocket' = [websocket EXCEPT ![r] = IF @ = "open" THEN "closed" ELSE @]
    /\ chunks' = [chunks EXCEPT ![r] = Except(@, e)]
    /\ pc' = [pc EXCEPT ![r] = "y_error"]

\* a request arrives; chat_completion runs to the mint call
Arrive(r, lists) ==
    /\ pc[r] = "idle"
    /\ \A q \in Requests : q < r => pc[q] /= "idle"
    /\ \E msgs \in lists : messages' = [messages EXCEPT ![r] = msgs]
    /\ calls' = Called(r, "mint")
    /\ pc' = [pc EXCEPT ![r] = "mint"]
    /\ UNCHANGED <<conversation_cache, uuids, fingerprint, chat_history_id,
                   created, response, exc, websocket, recvd, chunks, gone>>

\* a failed mint that is tried a second time before the request fails
MintFailsRetried(r) ==
    /\ pc[r] = "mint"
    /\ IF calls[r].mint < 2
       THEN /\ calls' = Called(r, "mint")
            /\ UNCHANGED <<response, pc>>
       ELSE /\ response' = [response EXCEPT ![r] = "http500"]
            /\ pc' = [pc EXCEPT ![r] = "done"]
            /\ UNCHANGED calls
    /\ UNCHANGED <<conversation_cache, uuids, messages, fingerprint,
                   chat_history_id, created, exc, websocket, recvd, chunks, gone>>

\* the mint fails: _get_fresh_jwt raises HTTPException(500), which
\* chat_completions re-raises
MintFails(r) ==
    /\ pc[r] = "mint"
    /\ response' = [response EXCEPT ![r] = "http500"]
    /\ pc' = [pc EXCEPT ![r] = "done"]
    /\ UNCHANGED <<conversation_cache, uuids, messages, fingerprint,
                   chat_history_id, created, exc, websocket, recvd, chunks, calls, gone>>

\* the mint returns a token: the history is fingerprinted and resolved, and
\* the StreamingResponse is returned
MintReturns(r) ==
    /\ pc[r] = "mint"
    /\ LET f == Fingerprint(AllButLast(messages[r]))
           h == uuids + 1
       IN /\ fingerprint' = [fingerprint EXCEPT ![r] = f]
          /\ chat_history_id' =
                 [chat_history_id EXCEPT ![r] = HandleOfResolve(conversation_cache, f, h)]
          /\ conversation_cache' = CacheAfterResolve(conversation_cache, f, h)
          /\ created' = [created EXCEPT ![r] = f \notin DOMAIN conversation_cache]
          /\ uuids' = IF f \in DOMAIN conversation_cache THEN uuids ELSE h
    /\ response' = [response EXCEPT ![r] = "stream"]
    /\ pc' = [pc EXCEPT ![r] = "start"]
    /\ UNCHANGED <<messages, exc, websocket, recvd, chunks, calls, gone>>

\* the generator starts: messages[-1]["content"], then the trigger call
StartStream(r) ==
    /\ pc[r] = "start"
    /\ IF Len(messages[r]) = 0
       THEN Caught(r, "IndexError") /\ UNCHANGED calls
       ELSE IF ~Has(messages[r][Len(messages[r])], "content")
       THEN Caught(r, "KeyError") /\ UNCHANGED calls
       ELSE /\ calls' = Called(r, "trigger")
            /\ pc' = [pc EXCEPT ![r] = "trigger"]
            /\ UNCHANGED <<exc, websocket, chunks>>
    /\ UNCHANGED <<conversation_cache, uuids, messages, fingerprint,
                   chat_history_id, created, response, recvd, gone>>

\* the trigger call fails, or raise_for_status raises
TriggerFails(r) ==
    /\ pc[r] = "trigger"
    /\ Caught(r, "HTTPStatusError")
    /\ UNCHANGED <<conversation_cache, uuids, messages, fingerprint,
                   chat_history_id, created, response, recvd, calls, gone>>

\* the trigger call succeeds: the channel is asked for
TriggerSucceeds(r) ==
    /\ pc[r] = "trigger"
    /\ calls' = Called(r, "connect")
    /\ pc' = [pc EXCEPT ![r] = "connect"]
    /\ UNCHANGED <<conversation_cache, uuids, messages, fingerprint,
                   chat_history_id, created, response, exc, websocket, recvd, chunks, gone>>

\* websockets.connect raises
ConnectFails(r) ==
    /\ pc[r] = "connect"
    /\ Caught(r, "ConnectError")
    /\ UNCHANGED <<conversation_cache, uuids, messages, fingerprint,
                   chat_history_id, created, response, recvd, calls, gone>>

\* the channel opens and the loop starts without an initial chunk
ConnectSucceedsSilent(r) ==
    /\ pc[r] = "connect"
    /\ websocket' = [websocket EXCEPT ![r] = "open"]
    /\ pc' = [pc EXCEPT ![r] = "recv"]
    /\ UNCHANGED <<conversation_cache, uuids, messages, fingerprint, chat_history_id,
                   created, response, exc, recvd, chunks, calls, gone>>

\* the channel opens: the initial chunk is yielded
ConnectSucceeds(r) ==
    /\ pc[r] = "connect"
    /\ websocket' = [websocket EXCEPT ![r] = "open"]
    /\ chunks' = [chunks EXCEPT ![r] = Append(@, InitialChunk)]
    /\ pc' = [pc EXCEPT ![r] = "y_open"]
    /\ UNCHANGED <<conversation_cache, uuids, messages, fingerprint,
                   chat_history_id, created, response, exc, recvd, calls, gone>>

\* the consumer takes the next chunk after the initial or a content chunk:
\* the loop awaits the next frame
Resume(r) ==
    /\ ~gone[r]
    /\ pc[r] \in {"y_open", "y_content"}
    /\ pc' = [pc EXCEPT ![r] = "recv"]
    /\ UNCHANGED <<conversation_cache, uuids, messages, fingerprint, chat_history_id,
                   created, response, exc, websocket, recvd, chunks, calls, gone>>

\* websocket.recv() returns a frame: one pass of the loop body
Receive(r, frames, max) ==
    /\ pc[r] = "recv"
    /\ Len(recvd[r]) < max
    /\ \E message \in frames :
         LET o == OnMessage(message) IN
         /\ recvd' = [recvd EXCEPT ![r] = Append(@, message)]
         /\ CASE o.do = "break" ->
                   /\ websocket' = [websocket EXCEPT ![r] = "closed"]
                   /\ chunks' = [chunks EXCEPT ![r] = Finally(@)]
                   /\ pc' = [pc EXCEPT ![r] = "y_final"]
                   /\ UNCHANGED exc
              [] o.do = "continue" ->
                   UNCHANGED <<websocket, chunks, pc, exc>>
              [] o.do = "yield" ->
                   /\ chunks' = [chunks EXCEPT ![r] = Append(@, ContentChunk(o.content))]
                   /\ pc' = [pc EXCEPT ![r] = "y_content"]
                   /\ UNCHANGED <<websocket, exc>>
              [] o.do = "raise" ->
                   Caught(r, o.exc)
    /\ UNCHANGED <<conversation_cache, uuids, messages, fingerprint,
                   chat_history_id, created, response, calls, gone>>

\* websocket.recv() raises: the upstream closed the channel, or it broke
ReceiveFails(r) ==
    /\ pc[r] = "recv"
    /\ Caught(r, "ConnectionClosed")
    /\ UNCHANGED <<conversation_cache, uuids, messages, fingerprint,
                   chat_history_id, created, response, recvd, calls, gone>>

\* the consumer takes the next chunk after the error chunk: the finally clause
ResumeAfterError(r) ==
    /\ pc[r] = "y_error"
    /\ ~gone[r]
    /\ chunks' = [chunks EXCEPT ![r] = Finally(@)]
    /\ pc' = [pc EXCEPT ![r] = "y_final"]
    /\ UNCHANGED <<conversation_cache, uuids, messages, fingerprint, chat_history_id,
                   created, response, exc, websocket, recvd, calls, gone>>

\* the consumer asks once more after the final chunk: the generator returns
ResumeAfterFinal(r) ==
    /\ pc[r] = "y_final"
    /\ ~gone[r]
    /\ pc' = [pc EXCEPT ![r] = "done"]
    /\ UNCHANGED <<conversation_cache, uuids, messages, fingerprint, chat_history_id,
                   created, response, exc, websocket, recvd, chunks, calls, gone>>

\* the client drops the transport while the generator is suspended in
\* websocket.recv() or at a yield: nothing of the generator runs yet, and
\* nothing in the generator looks at the transport; a generator suspended in
\* websocket.recv() goes on receiving until the server cancels its task, if
\* it does, or until a chunk it yields finds no taker
Disconnect(r) ==
    /\ pc[r] \in {"y_open", "recv", "y_content", "y_error", "y_final"}
    /\ ~gone[r]
    /\ gone' = [gone EXCEPT ![r] = TRUE]
    /\ UNCHANGED <<conversation_cache, uuids, pc, messages, fingerprint, chat_history_id,
                   created, response, exc, websocket, recvd, chunks, calls>>

\* the response task is cancelled while websocket.recv() is pending:
\* CancelledError leaves the async with, which closes the channel, passes
\* "except Exception", which does not match it, and reaches the finally
\* clause, whose yield hands one more chunk to the cancelled task
Cancelled(r) ==
    /\ gone[r]
    /\ pc[r] = "recv"
    /\ websocket' = [websocket EXCEPT ![r] = "closed"]
    /\ chunks' = [chunks EXCEPT ![r] = Finally(@)]
    /\ pc' = [pc EXCEPT ![r] = "y_final"]
    /\ UNCHANGED <<conversation_cache, uuids, messages, fingerprint, chat_history_id,
                   created, response, exc, recvd, calls, gone>>

\* the abandoned generator is closed at a yield: GeneratorExit leaves the
\* async with, if it is inside one, which closes the channel; nothing takes
\* what the finally clause yields after that
Closed(r) ==
    /\ gone[r]
    /\ pc[r] \in {"y_open", "y_content", "y_error", "y_final"}
    /\ websocket' = [websocket EXCEPT ![r] = IF @ = "open" THEN "closed" ELSE @]
    /\ pc' = [pc EXCEPT ![r] = "closed"]
    /\ UNCHANGED <<conversation_cache, uuids, messages, fingerprint, chat_history_id,
                   created, response, exc, recvd, chunks, calls, gone>>

\* the consumer of request r goes away
Leave(r) ==
    \/ Disconnect(r)
    \/ Cancelled(r)
    \/ Closed(r)

\* the steps of request r that do not depend on the specification's inputs
Step(r) ==
    \/ MintFails(r)
    \/ MintReturns(r)
    \/ StartStream(r)
    \/ TriggerFails(r)
    \/ TriggerSucceeds(r)
    \/ ConnectFails(r)
    \/ ConnectSucceeds(r)
    \/ Resume(r)
    \/ ReceiveFails(r)
    \/ ResumeAfterError(r)
    \/ ResumeAfterFinal(r)

\* the relay specification: one request, every kind of frame
Next ==
    \/ Arrive(1, RelayLists)
    \/ Step(1)
    \/ Receive(1, RelayFrames, MaxReceives)
    \/ Leave(1)

Spec == Init /\ [][Next]_vars

\* what the event loop and the clients of request r do without the upstream
\* pushing a frame: the calls made with httpx and websockets.connect return
\* or fail within their default timeouts, a consumer that has not gone away
\* takes each chunk, a cancellation is delivered; websocket.recv() at line
\* 144 has no timeout and nothing reads settings.API_REQUEST_TIMEOUT
Scheduled(r) ==
    \/ MintFails(r) \/ MintReturns(r)
    \/ StartStream(r)
    \/ TriggerFails(r) \/ TriggerSucceeds(r)
    \/ ConnectFails(r) \/ ConnectSucceeds(r)
    \/ Resume(r)
    \/ ResumeAfterError(r)
    \/ ResumeAfterFinal(r)
    \/ Cancelled(r)
    \/ Closed(r)

\* the relay specification with the scheduling the code can rely on
SpecLive == Spec /\ WF_vars(Scheduled(1))

\* the cache specification: concurrent requests, few frames
NextCache ==
    \E r \in Requests :
        \/ Arrive(r, CacheLists)
        \/ Step(r)
        \/ Receive(r, CacheFrames, MaxReceives)

SpecCache == Init /\ [][NextCache]_vars

\* the failure specification: concurrent requests that fail and are sent
\* again, the empty messages list among them
NextFailures ==
    \E r \in Requests :
        \/ Arrive(r, FailureLists)
        \/ Step(r)
        \/ Receive(r, CacheFrames, MaxReceives)

SpecFailures == Init /\ [][NextFailures]_vars

(***************************************************************************)
(* Vocabulary of the properties.                                           *)
(***************************************************************************)
\* the request got a stream and the stream has ended
Terminated(r) == response[r] = "stream" /\ pc[r] = "done"

\* the request's history has been resolved to a handle
Resolved(r) == response[r] = "stream"

IsTerminalChunk(c) == c.content = "" /\ c.finish_reason = "stop"

IsErrorChunk(c) == c.content /= "" /\ c.finish_reason = "stop"

TerminalAt(r) == {i \in DOMAIN chunks[r] : IsTerminalChunk(chunks[r][i])}

ErrorAt(r) == {i \in DOMAIN chunks[r] : IsErrorChunk(chunks[r][i])}

StopAt(r) == {i \in DOMAIN chunks[r] : chunks[r][i].finish_reason = "stop"}

\* the JSON object a frame carries, the empty object if it carries none
FrameData(m) == IF Tag(m) = "jstr" /\ IsDict(m[2]) THEN m[2] ELSE Dict(<<>>)

\* a state event with inProgress=false
TerminatingState(m) ==
    /\ IsStr(Get(FrameData(m), "type", None), "state")
    /\ LET st == Get(FrameData(m), "state", None) IN
       IsDict(st) /\ Get(st, "inProgress", None) = Bool(FALSE)

\* an update event
IsUpdate(m) == IsStr(Get(FrameData(m), "type", None), "update")

\* the nested payload decodes as a JSON object
PayloadDecodes(m) ==
    LET b == Get(FrameData(m), "buffer", None) IN Tag(b) = "jstr" /\ IsDict(b[2])

\* an update event whose nested payload is a chat payload with content
ChatContentUpdate(m) ==
    /\ IsUpdate(m)
    /\ PayloadDecodes(m)
    /\ LET p == Get(FrameData(m), "buffer", None)[2] IN
       /\ IsStr(Get(p, "type", None), "chat")
       /\ LET c == Get(p, "chat", None) IN
          IsDict(c) /\ Truthy(Get(c, "content", None))

\* an update event that carries a nested payload which does not decode
MalformedUpdate(m) ==
    IsUpdate(m) /\ Has(FrameData(m), "buffer") /\ ~PayloadDecodes(m)

\* request r receives a frame in this step
Receives(r) == Len(recvd'[r]) = Len(recvd[r]) + 1

Received(r) == recvd'[r][Len(recvd'[r])]

\* two messages with the same items, whatever the order of their keys
SameMessage(m1, m2) ==
    {m1[2][i] : i \in 1..Len(m1[2])} = {m2[2][i] : i \in 1..Len(m2[2])}

\* two histories equal after canonicalization
SameHistory(h1, h2) ==
    Len(h1) = Len(h2) /\ \A i \in 1..Len(h1) : SameMessage(h1[i], h2[i])

\* b is the request that follows a in one conversation: a's messages, the
\* assistant's reply, and a new message
NextTurn(a, b) ==
    /\ Len(a) >= 1
    /\ Len(b) = Len(a) + 2
    /\ SubSeq(b, 1, Len(a)) = a
    /\ IsStr(Get(b[Len(a) + 1], "role", None), "assistant")

(***************************************************************************)
(* The stream's framing.                                                   *)
(***************************************************************************)
\* C1: a stream that has ended holds exactly one empty chunk with
\* finish_reason=stop and it is its last chunk, whatever ended the stream;
\* while the stream runs, nothing is emitted after such a chunk.
C1_TerminalChunkOnceAndLast ==
    \A r \in Requests :
        /\ TerminalAt(r) \subseteq {Len(chunks[r])}
        /\ Terminated(r) => TerminalAt(r) = {Len(chunks[r])}

\* a stream ended by a receive error after a content chunk
C1_Witness ==
    \E r \in Requests :
        /\ Terminated(r)
        /\ exc[r] = "ConnectionClosed"
        /\ Len(chunks[r]) = 4

\* C2, as claimed: a stream that has ended holds exactly one chunk with
\* finish_reason=stop.
C2_ExactlyOneStopChunk ==
    \A r \in Requests : Terminated(r) => Cardinality(StopAt(r)) = 1

\* C2, amended: a stream that has ended ends with a chunk with
\* finish_reason=stop; it holds one such chunk when no error chunk was
\* emitted, and two when one was: the error chunk and the terminal chunk.
C2_StopChunks ==
    \A r \in Requests :
        Terminated(r) =>
            /\ Len(chunks[r]) \in StopAt(r)
            /\ Cardinality(StopAt(r)) = IF ErrorAt(r) = {} THEN 1 ELSE 2

\* a stream that ended with an error chunk and so with two stop chunks
C2_Witness ==
    \E r \in Requests :
        Terminated(r) /\ ErrorAt(r) /= {} /\ Cardinality(StopAt(r)) = 2

\* C3: a stream that has ended holds an error chunk exactly if an exception
\* ended it; then it holds one, right before the terminal chunk; a stream
\* ended by a state event with inProgress=false holds none.
C3_ErrorChunkIffFailure ==
    \A r \in Requests :
        Terminated(r) =>
            /\ exc[r] /= "" <=> ErrorAt(r) /= {}
            /\ exc[r] /= "" => ErrorAt(r) = {Len(chunks[r]) - 1}
            /\ (recvd[r] /= <<>> /\ TerminatingState(recvd[r][Len(recvd[r])]))
                   => ErrorAt(r) = {}

\* a stream that failed on a frame it received after a content chunk
C3_Witness ==
    \E r \in Requests :
        /\ Terminated(r)
        /\ exc[r] = "JSONDecodeError"
        /\ Len(recvd[r]) = 2
        /\ ErrorAt(r) = {3}

(***************************************************************************)
(* The receive loop.                                                       *)
(***************************************************************************)
\* C8: the step that receives a state event with inProgress=false closes
\* the channel and emits the terminal chunk and nothing else; after it no
\* frame is received and no chunk is emitted.
C8_HaltsOnStateDone ==
    [][\A r \in Requests :
          /\ (Receives(r) /\ TerminatingState(Received(r))) =>
                 /\ chunks'[r] = Append(chunks[r], FinalChunk)
                 /\ websocket'[r] = "closed"
                 /\ pc'[r] /= "recv"
          /\ (\E i \in DOMAIN recvd[r] : TerminatingState(recvd[r][i])) =>
                 /\ recvd'[r] = recvd[r]
                 /\ chunks'[r] = chunks[r]]_vars

\* a stream that ended on a state event with inProgress=false after two
\* other frames
C8_Witness ==
    \E r \in Requests :
        /\ Terminated(r)
        /\ Len(recvd[r]) = 3
        /\ TerminatingState(recvd[r][3])
        /\ Len(chunks[r]) >= 3

\* C9, as claimed: the step that receives an update event whose nested
\* payload does not decode emits nothing and leaves the loop receiving.
C9_MalformedUpdateSkipped ==
    [][\A r \in Requests :
          (Receives(r) /\ MalformedUpdate(Received(r))) =>
              chunks'[r] = chunks[r] /\ pc'[r] = "recv"]_vars

\* C10, as claimed: the step that receives a frame that is neither a state
\* event with inProgress=false nor a chat-content update emits nothing and
\* leaves the loop receiving.
C10_OtherFramesDropped ==
    [][\A r \in Requests :
          (/\ Receives(r)
           /\ ~TerminatingState(Received(r))
           /\ ~ChatContentUpdate(Received(r))) =>
              chunks'[r] = chunks[r] /\ pc'[r] = "recv"]_vars

(***************************************************************************)
(* The conversation cache.                                                 *)
(***************************************************************************)
\* every resolved request holds the handle its fingerprint is bound to, and
\* as many handles were created as fingerprints are bound
OneHandlePerFingerprint ==
    /\ \A r \in Requests :
           Resolved(r) =>
               /\ fingerprint[r] \in DOMAIN conversation_cache
               /\ chat_history_id[r] = conversation_cache[fingerprint[r]]
    /\ uuids = Cardinality(DOMAIN conversation_cache)
    /\ \A r1, r2 \in Requests : created[r1] /\ created[r2] /\ r1 /= r2 =>
           fingerprint[r1] /= fingerprint[r2]

\* C4: under every interleaving of the requests at their awaits and yields,
\* a bound fingerprint keeps its handle, one handle is created per
\* fingerprint, and every request with that fingerprint uses it.
C4_GetOrCreateAtomic ==
    [][/\ OneHandlePerFingerprint
       /\ OneHandlePerFingerprint'
       /\ \A f \in DOMAIN conversation_cache :
              /\ f \in DOMAIN conversation_cache'
              /\ conversation_cache'[f] = conversation_cache[f]]_vars

\* two requests with one fingerprint, the second resolved while the first
\* is suspended in a network call of its stream
C4_Witness ==
    \E r1, r2 \in Requests :
        /\ pc[r1] \in {"trigger", "connect", "recv"}
        /\ pc[r2] = "start"
        /\ fingerprint[r1] = fingerprint[r2]
        /\ fingerprint[r1] /= Sentinel
        /\ created[r1] /\ ~created[r2]
        /\ chat_history_id[r1] = chat_history_id[r2]

\* C5: two resolved requests hold the same handle exactly if their prior
\* histories are equal after canonicalization.
C5_SameHistorySameHandle ==
    \A r1, r2 \in Requests :
        Resolved(r1) /\ Resolved(r2) =>
            (SameHistory(AllButLast(messages[r1]), AllButLast(messages[r2]))
                 <=> chat_history_id[r1] = chat_history_id[r2])

\* two requests whose histories differ only in the order of a message's
\* keys, on one handle
C5_Witness ==
    \E r1, r2 \in Requests :
        /\ Resolved(r1) /\ Resolved(r2)
        /\ AllButLast(messages[r1]) /= AllButLast(messages[r2])
        /\ SameHistory(AllButLast(messages[r1]), AllButLast(messages[r2]))
        /\ chat_history_id[r1] = chat_history_id[r2]

\* C6, as claimed: a request and the request of the conversation's next
\* turn hold the same handle.
C6_NextTurnSameHandle ==
    \A r1, r2 \in Requests :
        (Resolved(r1) /\ Resolved(r2) /\ NextTurn(messages[r1], messages[r2]))
            => chat_history_id[r1] = chat_history_id[r2]

\* C7, as claimed: a request with exactly one message has the sentinel
\* fingerprint and created its handle.
C7_SingleMessageCreates ==
    \A r \in Requests :
        (Resolved(r) /\ Len(messages[r]) = 1) =>
            /\ AllButLast(messages[r]) = <<>>
            /\ fingerprint[r] = Sentinel
            /\ created[r]

\* C7, amended: the resolve of a request with exactly one message yields
\* the sentinel fingerprint; it creates a handle no request has held and
\* binds it if the sentinel is unbound, and takes the bound handle if not.
C7_SingleMessageSentinel ==
    [][\A r \in Requests :
          (pc[r] = "mint" /\ pc'[r] = "start" /\ Len(messages[r]) = 1) =>
              /\ AllButLast(messages[r]) = <<>>
              /\ fingerprint'[r] = Sentinel
              /\ created'[r] <=> Sentinel \notin DOMAIN conversation_cache
              /\ IF Sentinel \in DOMAIN conversation_cache
                 THEN /\ chat_history_id'[r] = conversation_cache[Sentinel]
                      /\ conversation_cache' = conversation_cache
                 ELSE /\ chat_history_id'[r] > uuids
                      /\ \A q \in Requests : chat_history_id[q] /= chat_history_id'[r]
                      /\ conversation_cache'[Sentinel] = chat_history_id'[r]]_vars

\* two requests with one message each, of different content: the first
\* created the handle, the second took it
C7_Witness ==
    \E r1, r2 \in Requests :
        /\ Resolved(r1) /\ Resolved(r2)
        /\ Len(messages[r1]) = 1 /\ Len(messages[r2]) = 1
        /\ messages[r1] /= messages[r2]
        /\ created[r1] /\ ~created[r2]
        /\ chat_history_id[r1] = chat_history_id[r2]

(***************************************************************************)
(* The relay of content.                                                   *)
(***************************************************************************)
\* the content of a chat payload update
ContentOf(m) ==
    LET p == Get(FrameData(m), "buffer", None)[2] IN
    Get(Get(p, "chat", None), "content", None)[2]

\* the contents of the chat payload updates among the frames ms, in order
RECURSIVE ChatContents(_)
ChatContents(ms) ==
    IF ms = <<>> THEN <<>>
    ELSE LET rest == ChatContents(Tail(ms)) IN
         IF ChatContentUpdate(Head(ms)) THEN <<ContentOf(Head(ms))>> \o rest ELSE rest

\* the contents of the chunks without finish_reason that follow the first
RelayedContents(r) ==
    LET open == SelectSeq(chunks[r], LAMBDA c : c.finish_reason = "none") IN
    IF open = <<>> THEN <<>> ELSE [i \in 1..(Len(open) - 1) |-> open[i + 1].content]

\* C11: at every moment of a stream the contents of the content chunks
\* emitted after the stream-open chunk are, in order and each once, the
\* contents of the update events received so far that carry a chat payload
\* with content; no other frame contributes a chunk.
C11_ContentChunksMirrorUpdates ==
    \A r \in Requests : RelayedContents(r) = ChatContents(recvd[r])

\* two contents relayed in order around an update that carries none
C11_Witness ==
    \E r \in Requests :
        /\ Len(recvd[r]) = 3
        /\ ~ChatContentUpdate(recvd[r][2]) /\ IsUpdate(recvd[r][2])
        /\ RelayedContents(r) = <<"y", "x">>

(***************************************************************************)
(* The opening of a stream.                                                *)
(***************************************************************************)
\* the trigger call of the stream was issued and failed
TriggerFailed(r) ==
    /\ calls[r].trigger = 1
    /\ calls[r].connect = 0
    /\ pc[r] \in {"y_error", "y_final", "done", "closed"}

\* C12: a stream whose trigger call fails never opens a channel and
\* receives nothing; it emits no stream-open chunk and no content chunk:
\* once it has ended it consists of one error chunk followed by the
\* terminal chunk.
C12_TriggerFailureEndsStream ==
    \A r \in Requests :
        TriggerFailed(r) =>
            /\ websocket[r] = "none"
            /\ recvd[r] = <<>>
            /\ \A i \in DOMAIN chunks[r] : chunks[r][i].finish_reason = "stop"
            /\ ErrorAt(r) = {1}
            /\ Terminated(r) => Len(chunks[r]) = 2 /\ TerminalAt(r) = {2}

\* a stream that has ended after its trigger call failed
C12_Witness ==
    \E r \in Requests : TriggerFailed(r) /\ Terminated(r) /\ exc[r] = "HTTPStatusError"

\* a chunk with empty content and no finish reason
IsOpenChunk(c) == c.content = "" /\ c.finish_reason = "none"

OpenAt(r) == {i \in DOMAIN chunks[r] : IsOpenChunk(chunks[r][i])}

\* C13: a stream whose channel has opened has emitted, first and once, a
\* chunk with empty content and no finish reason; while that chunk is the
\* last thing done nothing has been received, and the loop awaits a frame
\* only after it; the channel is asked for only after the one trigger call
\* has returned without failure.
C13_OpenChunkFirst ==
    \A r \in Requests :
        /\ (websocket[r] /= "none" \/ pc[r] = "recv" \/ recvd[r] /= <<>>) =>
               /\ OpenAt(r) = {1}
               /\ calls[r].connect = 1
        /\ pc[r] = "y_open" => recvd[r] = <<>> /\ Len(chunks[r]) = 1
        /\ calls[r].connect >= 1 =>
               /\ calls[r].trigger = 1
               /\ ~TriggerFailed(r)
               /\ pc[r] /= "trigger"

\* a stream that opened its channel, emitted the first chunk and then
\* received a frame
C13_Witness ==
    \E r \in Requests :
        /\ websocket[r] = "open"
        /\ Len(recvd[r]) = 1
        /\ IsOpenChunk(chunks[r][1])

(***************************************************************************)
(* The credential mint.                                                    *)
(***************************************************************************)
\* the mint of the request failed: chat_completion raised HTTPException
MintFailed(r) == response[r] = "http500"

\* C14: a request whose credential mint failed has handed its client a
\* terminated stream: one error chunk followed by the terminal chunk.
C14_MintFailureStreamsError ==
    \A r \in Requests :
        MintFailed(r) =>
            /\ Len(chunks[r]) = 2
            /\ ErrorAt(r) = {1}
            /\ TerminalAt(r) = {2}

(***************************************************************************)
(* The end of a stream.                                                    *)
(***************************************************************************)
\* C15: a stream that awaits a frame ends (the generator returns, or is
\* closed after its consumer went away) even when the upstream sends it
\* no further frame: it does not wait for ever.
C15_EveryStreamEnds ==
    \A r \in Requests : \A n \in 0..(MaxReceives - 1) :
        (pc[r] = "recv" /\ Len(recvd[r]) = n)
            ~> (pc[r] \in {"done", "closed"} \/ Len(recvd[r]) > n)

\* C16: once the consumer of a stream has gone away the relay receives no
\* further frame and emits no further chunk, and when it moves again it
\* has closed its channel.
C16_NothingAfterConsumerGone ==
    [][\A r \in Requests :
          gone[r] =>
              /\ recvd'[r] = recvd[r]
              /\ chunks'[r] = chunks[r]
              /\ pc'[r] /= pc[r] => websocket'[r] /= "open"]_vars

(***************************************************************************)
(* The sentinel and the bindings of failed requests.                       *)
(***************************************************************************)
\* the request was resolved with a messages list of one message
SingleMessage(r) == Resolved(r) /\ Len(messages[r]) = 1

\* C17: all requests with a single message, whatever its content, hold one
\* handle, the one bound to the sentinel, of which only the first of them
\* to be resolved can be the creator; their trigger calls go to it.
C17_SingleMessagesShareHandle ==
    \A r1, r2 \in Requests :
        (SingleMessage(r1) /\ SingleMessage(r2)) =>
            /\ Sentinel \in DOMAIN conversation_cache
            /\ chat_history_id[r1] = conversation_cache[Sentinel]
            /\ chat_history_id[r1] = chat_history_id[r2]
            /\ (r1 /= r2) => ~(created[r1] /\ created[r2])

\* two requests with one message each, of different content, whose streams
\* both went to the handle of the sentinel and ended
C17_Witness ==
    \E r1, r2 \in Requests :
        /\ r1 /= r2
        /\ SingleMessage(r1) /\ SingleMessage(r2)
        /\ messages[r1] /= messages[r2]
        /\ Terminated(r1) /\ Terminated(r2)
        /\ calls[r1].trigger = 1 /\ calls[r2].trigger = 1
        /\ chat_history_id[r2] = conversation_cache[Sentinel]

\* the stream of the request was ended by an exception
Failed(r) == Resolved(r) /\ exc[r] /= ""

\* C18: a request is resolved, and its fingerprint bound, before its
\* trigger call; the binding outlives the failure of its stream, by the
\* trigger call, the channel or an empty messages list, which binds the
\* sentinel and fails before any trigger call: any other request with the
\* same prior history holds the handle of the failed one.
C18_BindingOutlivesFailure ==
    \A r \in Requests :
        /\ calls[r].trigger >= 1 => Resolved(r)
        /\ (Resolved(r) /\ messages[r] = <<>>) => fingerprint[r] = Sentinel
        /\ (Failed(r) /\ messages[r] = <<>>) => calls[r].trigger = 0
        /\ (Resolved(r) /\ (Failed(r) \/ calls[r].trigger >= 1)) =>
               /\ fingerprint[r] \in DOMAIN conversation_cache
               /\ conversation_cache[fingerprint[r]] = chat_history_id[r]
        /\ \A q \in Requests :
               (Failed(r) /\ Resolved(q)
                  /\ SameHistory(AllButLast(messages[r]), AllButLast(messages[q])))
                   => chat_history_id[q] = chat_history_id[r]

\* a request with an empty messages list bound the sentinel and failed
\* before any trigger call; a later request with one message took its handle
C18_Witness ==
    \E r1, r2 \in Requests :
        /\ messages[r1] = <<>> /\ Terminated(r1) /\ Failed(r1)
        /\ created[r1] /\ calls[r1].trigger = 0
        /\ Len(messages[r2]) = 1 /\ Resolved(r2) /\ ~created[r2]
        /\ chat_history_id[r2] = chat_history_id[r1]

\* C19: a request whose mint failed made one mint call, no trigger call and
\* asked for no channel; it was not resolved, so no fingerprint is bound
\* for it: every binding of the cache is the fingerprint of a request that
\* was resolved, and as many handles were created as there are bindings.
C19_MintFailureNoEffect ==
    /\ \A r \in Requests :
           MintFailed(r) =>
               /\ calls[r] = [mint |-> 1, trigger |-> 0, connect |-> 0]
               /\ websocket[r] = "none"
               /\ fingerprint[r] = Unset
               /\ ~created[r]
               /\ pc[r] = "done"
    /\ \A f \in DOMAIN conversation_cache :
           \E r \in Requests : Resolved(r) /\ fingerprint[r] = f
    /\ uuids = Cardinality({r \in Requests : created[r]})

\* one request failed at the mint while the other was resolved and bound
\* the only fingerprint of the cache
C19_Witness ==
    \E r1, r2 \in Requests :
        /\ MintFailed(r1)
        /\ Resolved(r2) /\ created[r2]
        /\ DOMAIN conversation_cache = {fingerprint[r2]}

\* C20: a stream makes at most one trigger call and asks for at most one
\* channel; when its terminal chunk has been emitted, and when it has
\* ended, its channel, if it opened one, is closed.
C20_ChannelClosedBeforeTerminal ==
    \A r \in Requests :
        /\ calls[r].trigger <= 1
        /\ calls[r].connect <= 1
        /\ TerminalAt(r) /= {} => websocket[r] /= "open"
        /\ Terminated(r) => websocket[r] /= "open"
        /\ websocket[r] /= "none" => calls[r].connect = 1

\* a stream that opened its channel, relayed a content chunk and was ended
\* by the upstream's closure of the channel, which it left closed
C20_Witness ==
    \E r \in Requests :
        /\ Terminated(r)
        /\ websocket[r] = "closed"
        /\ exc[r] = "ConnectionClosed"
        /\ RelayedContents(r) /= <<>>
====
